---- MODULE Spec2Model ----
(***************************************************************************)
(* Mexty browser extension: the content script's job-form detection and    *)
(* autofill (src/extension/content.js) and the message exchange with the   *)
(* background service worker that supplies the profile.                    *)
(*                                                                         *)
(* Strings are tuples of one-character strings, so that toLowerCase,       *)
(* includes and trim are computed character by character.                  *)
(***************************************************************************)
EXTENDS Integers, Sequences, FiniteSets, TLC

VARIABLES doc, inv, running, call, bg

vars == <<doc, inv, running, call, bg>>

\* JavaScript null / undefined: differs from every string, whose elements
\* are single characters.
Null == <<"null">>

\* ------------------------------------------------------------------------
\* String primitives of the JavaScript runtime used by content.js
\* ------------------------------------------------------------------------
UpperChars == <<"A","B","C","D","E","F","G","H","I","J","K","L","M","N","O","P","Q","R","S","T","U","V","W","X","Y","Z">>

LowerChars == <<"a","b","c","d","e","f","g","h","i","j","k","l","m","n","o","p","q","r","s","t","u","v","w","x","y","z">>

\* String.prototype.toLowerCase on one character
LowerChar(c) ==
  IF \E i \in 1..Len(UpperChars) : UpperChars[i] = c
    THEN LowerChars[CHOOSE i \in 1..Len(UpperChars) : UpperChars[i] = c]
    ELSE c

\* String.prototype.toLowerCase
toLowerCase(s) == [i \in 1..Len(s) |-> LowerChar(s[i])]

\* String.prototype.includes: k occurs in a as a contiguous substring
includes(a, k) ==
  \E i \in 0..(Len(a) - Len(k)) : SubSeq(a, i + 1, i + Len(k)) = k

\* mutant: only null and undefined count as absent
Falsy_nullOnly(x) == x = Null

\* Boolean(x) is false for null, undefined and the empty string
Falsy(x) == x = Null \/ x = <<>>

\* ------------------------------------------------------------------------
\* FIELD_MAP: category -> aliases; FieldKeys is its key order (for..in
\* enumerates string keys in insertion order)
\* ------------------------------------------------------------------------
\* mutant: linkedin and github are declared before portfolio
FieldKeys_linksFirst ==
  <<"name", "firstName", "lastName", "email", "phone", "location",
    "linkedin", "github", "portfolio", "resume", "coverLetter">>

FieldKeys ==
  <<"name", "firstName", "lastName", "email", "phone", "location",
    "portfolio", "resume", "coverLetter", "linkedin", "github">>

FIELD_MAP ==
  [name        |-> <<<<"n","a","m","e">>, <<"f","u","l","l","_","n","a","m","e">>, <<"f","u","l","l","n","a","m","e">>, <<"a","p","p","l","i","c","a","n","t","_","n","a","m","e">>>>,
   firstName   |-> <<<<"f","i","r","s","t","_","n","a","m","e">>, <<"f","i","r","s","t","n","a","m","e">>, <<"g","i","v","e","n","-","n","a","m","e">>, <<"f","i","r","s","t","N","a","m","e">>>>,
   lastName    |-> <<<<"l","a","s","t","_","n","a","m","e">>, <<"l","a","s","t","n","a","m","e">>, <<"f","a","m","i","l","y","-","n","a","m","e">>, <<"l","a","s","t","N","a","m","e">>>>,
   email       |-> <<<<"e","m","a","i","l">>, <<"e","m","a","i","l","_","a","d","d","r","e","s","s">>>>,
   phone       |-> <<<<"p","h","o","n","e">>, <<"p","h","o","n","e","_","n","u","m","b","e","r">>, <<"t","e","l">>>>,
   location    |-> <<<<"l","o","c","a","t","i","o","n">>, <<"c","i","t","y">>, <<"a","d","d","r","e","s","s">>, <<"c","o","u","n","t","r","y">>>>,
   portfolio   |-> <<<<"p","o","r","t","f","o","l","i","o">>, <<"w","e","b","s","i","t","e">>, <<"s","i","t","e">>, <<"p","e","r","s","o","n","a","l","_","s","i","t","e">>,
                     <<"g","i","t","h","u","b">>, <<"l","i","n","k","e","d","i","n">>>>,
   resume      |-> <<<<"r","e","s","u","m","e">>, <<"c","v">>, <<"u","p","l","o","a","d","_","r","e","s","u","m","e">>>>,
   coverLetter |-> <<<<"c","o","v","e","r","l","e","t","t","e","r">>, <<"c","o","v","e","r","_","l","e","t","t","e","r">>>>,
   linkedin    |-> <<<<"l","i","n","k","e","d","i","n">>, <<"l","i","n","k","e","d","i","n","_","u","r","l">>>>,
   github      |-> <<<<"g","i","t","h","u","b">>, <<"g","i","t","h","u","b","_","u","r","l">>>>]

\* Category of "no match" (identifyFieldType returns null)
NoKey == "null"

\* ------------------------------------------------------------------------
\* identifyFieldType
\* ------------------------------------------------------------------------
\* mutant: the strings are compared in the case they were written in
DescriptiveAttrs_rawCase(el) ==
  LET raw  == <<el.name, el.id, el.placeholder, el.ariaLabel>>
      kept == SelectSeq(raw, LAMBDA s : ~Falsy(s))
      label == IF Falsy(el.label) THEN <<>> ELSE el.label
  IN  IF label # <<>> THEN Append(kept, label) ELSE kept

\* [el.name, el.id, placeholder, aria-label].filter(Boolean).map(toLowerCase),
\* then the first label's lowercased text pushed when non-empty
DescriptiveAttrs(el) ==
  LET raw  == <<el.name, el.id, el.placeholder, el.ariaLabel>>
      kept == SelectSeq(raw, LAMBDA s : ~Falsy(s))
      low  == [i \in 1..Len(kept) |-> toLowerCase(kept[i])]
      label == IF Falsy(el.label) THEN <<>> ELSE toLowerCase(el.label)
  IN  IF label # <<>> THEN Append(low, label) ELSE low

\* FIELD_MAP[key].some((k) => attrs.some((a) => a.includes(k)))
KeyMatches(key, attrs) ==
  \E j \in 1..Len(FIELD_MAP[key]) :
    \E i \in 1..Len(attrs) : includes(attrs[i], FIELD_MAP[key][j])

\* the for..in loop from key number k on: the first matching key, else null
RECURSIVE ScanKeys(_, _)
ScanKeys(k, attrs) ==
  IF k > Len(FieldKeys) THEN NoKey
  ELSE IF KeyMatches(FieldKeys[k], attrs) THEN FieldKeys[k]
  ELSE ScanKeys(k + 1, attrs)

\* mutant: the loop keeps going after a match, so the last matching key wins
RECURSIVE ScanKeysLast(_, _)
ScanKeysLast(k, attrs) ==
  IF k < 1 THEN NoKey
  ELSE IF KeyMatches(FieldKeys[k], attrs) THEN FieldKeys[k]
  ELSE ScanKeysLast(k - 1, attrs)

identifyFieldType_lastWins(el) == ScanKeysLast(Len(FieldKeys), DescriptiveAttrs(el))

identifyFieldType(el) == ScanKeys(1, DescriptiveAttrs(el))

\* ------------------------------------------------------------------------
\* Field elements.  An element is a record
\*   tagName, type (the type attribute or Null), name, id, placeholder,
\*   ariaLabel, label (text of labels[0] or Null), value, options (of a
\*   select: <<[text, value], ...>>), selected (index of the selected option,
\*   0 for none), throwsAt (the element access that throws on a hostile
\*   page, or "none"), events (what was done to it, in order).
\* ------------------------------------------------------------------------
WhiteSpace == {" ", "\t", "\n"}

\* String.prototype.trim
RECURSIVE TrimLeft(_)
TrimLeft(s) ==
  IF s # <<>> /\ Head(s) \in WhiteSpace THEN TrimLeft(Tail(s)) ELSE s

RECURSIVE TrimRight(_)
TrimRight(s) ==
  IF s # <<>> /\ s[Len(s)] \in WhiteSpace
    THEN TrimRight(SubSeq(s, 1, Len(s) - 1)) ELSE s

trim(s) == TrimRight(TrimLeft(s))

\* setting a select's value selects the first option with that value
FirstOptionWithValue(options, v) ==
  IF \E i \in 1..Len(options) : options[i].value = v
    THEN CHOOSE i \in 1..Len(options) :
           /\ options[i].value = v
           /\ \A j \in 1..(i - 1) : options[j].value # v
    ELSE 0

\* mutant: the value is appended to what the element holds
ApplyAccess_append(el, access, value) ==
  CASE access = "value" ->
         [el EXCEPT !.value = @ \o value,
                    !.selected = IF toLowerCase(el.tagName) = <<"s","e","l","e","c","t">>
                                   THEN FirstOptionWithValue(el.options, value)
                                   ELSE @,
                    !.events = Append(@, "value")]
    [] access = "options" -> el
    [] OTHER -> [el EXCEPT !.events = Append(@, access)]

\* one element access of fillElement's try block, applied to the element
ApplyAccess(el, access, value) ==
  CASE access = "value" ->
         [el EXCEPT !.value = value,
                    !.selected = IF toLowerCase(el.tagName) = <<"s","e","l","e","c","t">>
                                   THEN FirstOptionWithValue(el.options, value)
                                   ELSE @,
                    !.events = Append(@, "value")]
    [] access = "options" -> el
    [] OTHER -> [el EXCEPT !.events = Append(@, access)]

\* mutant: no try/catch around the accesses
RECURSIVE RunAccesses_noCatch(_, _, _, _)
RunAccesses_noCatch(el, accesses, k, value) ==
  IF k > Len(accesses) THEN [ret |-> TRUE, threw |-> FALSE, el |-> el]
  ELSE IF el.throwsAt = accesses[k] THEN [ret |-> FALSE, threw |-> TRUE, el |-> el]
  ELSE RunAccesses_noCatch(ApplyAccess(el, accesses[k], value), accesses, k + 1, value)

\* the accesses in order; the first one that throws ends the try block in
\* its catch, which falls through to `return false`
RECURSIVE RunAccesses(_, _, _, _)
RunAccesses(el, accesses, k, value) ==
  IF k > Len(accesses) THEN [ret |-> TRUE, threw |-> FALSE, el |-> el]
  ELSE IF el.throwsAt = accesses[k] THEN [ret |-> FALSE, threw |-> FALSE, el |-> el]
  ELSE RunAccesses(ApplyAccess(el, accesses[k], value), accesses, k + 1, value)

\* mutant: change is dispatched before input
InputAccesses_changeFirst == <<"focus", "value", "change", "input", "blur">>

\* el.focus(); el.value = value; dispatch input; dispatch change; el.blur()
InputAccesses == <<"focus", "value", "input", "change", "blur">>

\* mutant: an option matches when it contains the value
OptionMatches_substring(o, value) ==
  \/ includes(toLowerCase(trim(o.text)), toLowerCase(trim(value)))
  \/ includes(toLowerCase(trim(o.value)), toLowerCase(trim(value)))

\* options.find(o => text or value equals String(value), trimmed, lowercased)
OptionMatches(o, value) ==
  \/ toLowerCase(trim(o.text)) = toLowerCase(trim(value))
  \/ toLowerCase(trim(o.value)) = toLowerCase(trim(value))

FindOption(options, value) ==
  IF \E i \in 1..Len(options) : OptionMatches(options[i], value)
    THEN CHOOSE i \in 1..Len(options) :
           /\ OptionMatches(options[i], value)
           /\ \A j \in 1..(i - 1) : ~OptionMatches(options[j], value)
    ELSE 0

\* mutant: the type attribute is compared as written, not lowercased
ElementType_caseSensitive(el) == IF Falsy(el.type) THEN <<>> ELSE el.type

\* (el.getAttribute('type') || '').toLowerCase()
ElementType(el) == toLowerCase(IF Falsy(el.type) THEN <<>> ELSE el.type)

\* fillElement(el, value): ret is the value returned; threw says that an
\* exception left the function instead; el is the element afterwards
fillElement(el, value) ==
  LET same(r) == [ret |-> r, threw |-> FALSE, el |-> el]
      thrown  == [ret |-> FALSE, threw |-> TRUE, el |-> el]
      tag     == toLowerCase(el.tagName)
      type    == ElementType(el)
  IN  IF value = Null THEN same(FALSE)
      ELSE IF el.throwsAt = "tagName" THEN thrown
      ELSE IF el.throwsAt = "getAttribute" THEN thrown
      ELSE IF tag \in {<<"i","n","p","u","t">>, <<"t","e","x","t","a","r","e","a">>} THEN
             IF type \in {<<"c","h","e","c","k","b","o","x">>, <<"r","a","d","i","o">>} THEN same(FALSE)
             ELSE RunAccesses(el, InputAccesses, 1, value)
      ELSE IF tag = <<"s","e","l","e","c","t">> THEN
             IF el.throwsAt = "options" THEN same(FALSE)
             ELSE LET m == FindOption(el.options, value)
                  IN  IF m = 0 THEN same(FALSE)
                      ELSE RunAccesses(el, <<"value", "change">>, 1,
                                       el.options[m].value)
      ELSE same(FALSE)

\* ------------------------------------------------------------------------
\* autoFillForms: the body of the inner loop for one element
\* ------------------------------------------------------------------------
\* mutant: the later alternative is preferred
OrElse_last(a, b) == IF Falsy(b) THEN a ELSE b

\* a || b
OrElse(a, b) == IF Falsy(a) THEN b ELSE a

\* mutant: the two halves are always put around a space
JoinNames_template(a, b) ==
  (IF Falsy(a) THEN <<>> ELSE a) \o <<" ">> \o (IF Falsy(b) THEN <<>> ELSE b)

\* [a, b].filter(Boolean).join(' ')
JoinNames(a, b) ==
  IF Falsy(a) /\ Falsy(b) THEN <<>>
  ELSE IF Falsy(a) THEN b
  ELSE IF Falsy(b) THEN a
  ELSE a \o <<" ">> \o b

\* the switch (key) that maps the category to the profile value
ResolveValue(profile, key) ==
  CASE key = "name" ->
         OrElse(profile.fullName, JoinNames(profile.firstName, profile.lastName))
    [] key = "firstName" -> profile.firstName
    [] key = "lastName" -> profile.lastName
    [] key = "email" -> profile.email
    [] key = "phone" -> profile.phone
    [] key = "location" -> OrElse(profile.location, profile.city)
    [] key = "portfolio" ->
         OrElse(profile.portfolio,
                OrElse(profile.website, OrElse(profile.linkedin, profile.github)))
    [] key = "linkedin" -> profile.linkedin
    [] key = "github" -> profile.github
    [] OTHER -> Null

\* mutant: every attempted fill is counted, successful or not
FieldStep_countsAttempts(profile, el) ==
  IF el.throwsAt = "getAttribute"
    THEN [key |-> NoKey, called |-> FALSE, inc |-> 0, threw |-> TRUE, el |-> el]
  ELSE LET key == identifyFieldType(el)
           value == ResolveValue(profile, key)
       IN  IF key = NoKey \/ Falsy(value)
             THEN [key |-> key, called |-> FALSE, inc |-> 0, threw |-> FALSE,
                   el |-> el]
             ELSE LET r == fillElement(el, value)
                  IN  [key |-> key, called |-> TRUE, inc |-> 1,
                       threw |-> r.threw, el |-> r.el]

\* one iteration over element el: key is the category, called says whether
\* fillElement was called, inc is what is added to filledCount, threw says
\* that an exception left the iteration (and so autoFillForms)
FieldStep(profile, el) ==
  IF el.throwsAt = "getAttribute"
    THEN [key |-> NoKey, called |-> FALSE, inc |-> 0, threw |-> TRUE, el |-> el]
  ELSE LET key == identifyFieldType(el)
           value == ResolveValue(profile, key)
       IN  IF key = NoKey \/ Falsy(value)
             THEN [key |-> key, called |-> FALSE, inc |-> 0, threw |-> FALSE,
                   el |-> el]
             ELSE LET r == fillElement(el, value)
                  IN  [key |-> key, called |-> TRUE,
                       inc |-> IF r.ret THEN 1 ELSE 0,
                       threw |-> r.threw, el |-> r.el]

\* ------------------------------------------------------------------------
\* Inputs
\* ------------------------------------------------------------------------
\* a text input with no descriptive string
PlainInput ==
  [tagName |-> <<"I","N","P","U","T">>, type |-> <<"t","e","x","t">>, name |-> <<>>, id |-> <<>>,
   placeholder |-> Null, ariaLabel |-> Null, label |-> Null,
   value |-> <<>>, options |-> <<>>, selected |-> 0,
   throwsAt |-> "none", events |-> <<>>]

\* a profile with every key but phone
FullProfile ==
  [fullName |-> <<"A","d","a"," ","L","o","v","e","l","a","c","e">>, firstName |-> <<"A","d","a">>,
   lastName |-> <<"L","o","v","e","l","a","c","e">>, email |-> <<"a","d","a","@","x",".","i","o">>, phone |-> Null,
   location |-> <<"R","e","m","o","t","e">>, city |-> <<"L","o","n","d","o","n">>, portfolio |-> <<"a","d","a",".","d","e","v">>,
   website |-> <<"a","d","a",".","i","o">>, linkedin |-> <<"i","n","/","a","d","a">>, github |-> <<"g","h","/","a","d","a">>]

NoCall == [done |-> TRUE]

\* the background service worker is not part of the specification at hand
NoBackground == [none |-> TRUE]

\* ------------------------------------------------------------------------
\* SpecClassify: identifyFieldType and the loop body on one element
\* ------------------------------------------------------------------------
NamePool == {<<>>, <<"e","m","a","i","l">>, <<"f","u","l","l","_","n","a","m","e">>, <<"f","i","r","s","t","N","a","m","e">>, <<"P","h","o","n","e">>, <<"x","y","z">>}

IdPool ==
  {<<>>, <<"l","i","n","k","e","d","i","n","_","g","i","t","h","u","b">>, <<"g","i","t","h","u","b","_","u","r","l">>, <<"u","s","e","r","_","c","i","t","y">>, <<"c","v">>, <<"E","M","A","I","L">>}

PlaceholderPool == {Null, <<"Y","o","u","r"," ","L","i","n","k","e","d","I","n">>, <<"C","o","v","e","r"," ","l","e","t","t","e","r">>}

AriaPool == {Null, <<"W","e","b","s","i","t","e">>}

LabelPool == {Null, <<"L","a","s","t"," ","n","a","m","e">>, <<"R","e","s","u","m","e">>}

ClassifyInputs ==
  {[PlainInput EXCEPT !.name = n, !.id = i, !.placeholder = p,
                      !.ariaLabel = a, !.label = l] :
     n \in NamePool, i \in IdPool, p \in PlaceholderPool, a \in AriaPool,
     l \in LabelPool}

InitClassify ==
  /\ doc = <<>>
  /\ inv = <<>>
  /\ running = 0
  /\ bg = NoBackground
  /\ call \in {[done |-> FALSE, el0 |-> e,
                 out |-> [key |-> NoKey, called |-> FALSE, inc |-> 0,
                          threw |-> FALSE, el |-> e]] :
                 e \in ClassifyInputs}

\* the loop body of autoFillForms runs on the element
Classify ==
  /\ ~call.done
  /\ call' = [call EXCEPT !.done = TRUE,
                          !.out = FieldStep(FullProfile, call.el0)]
  /\ UNCHANGED <<doc, inv, running, bg>>

NextClassify == Classify

SpecClassify == InitClassify /\ [][NextClassify]_vars

\* the lowercased, non-empty descriptive strings of an element
DescriptiveStrings(el) ==
  {toLowerCase(s) :
     s \in {el.name, el.id, el.placeholder, el.ariaLabel, el.label}
             \ {Null, <<>>}}

\* the positions in the category table of the categories one of whose
\* aliases occurs in a descriptive string
CategoryHits(el) ==
  {k \in 1..Len(FieldKeys) :
     \E s \in DescriptiveStrings(el) :
       \E j \in 1..Len(FIELD_MAP[FieldKeys[k]]) :
         includes(s, FIELD_MAP[FieldKeys[k]][j])}

\* C1: the category of an element is the earliest declared category among
\* those an alias of which occurs in its descriptive strings, and is null
\* when there is none; an element without category is skipped: fillElement
\* is not called, the element is unchanged and nothing is counted.
C1_FirstMatchWins ==
  call.done =>
    LET hits == CategoryHits(call.el0)
    IN  /\ hits = {} =>
             /\ call.out.key = NoKey
             /\ ~call.out.called
             /\ call.out.inc = 0
             /\ call.out.el = call.el0
        /\ hits # {} =>
             call.out.key = FieldKeys[CHOOSE k \in hits : \A m \in hits : k <= m]

\* a classified element whose strings hold aliases of several categories
C1_Witness ==
  /\ call.done
  /\ Cardinality(CategoryHits(call.el0)) >= 2
  /\ call.out.key # NoKey

\* C2: an element whose only descriptive string is the id linkedin_github is
\* classified as linkedin.
C2_LinkedinGithubIsLinkedin ==
  (/\ call.done
   /\ call.el0.id = <<"l","i","n","k","e","d","i","n","_","g","i","t","h","u","b">>
   /\ DescriptiveStrings(call.el0) = {<<"l","i","n","k","e","d","i","n","_","g","i","t","h","u","b">>})
    => call.out.key = "linkedin"

\* ------------------------------------------------------------------------
\* SpecFill: fillElement on one element and one value
\* ------------------------------------------------------------------------
TagPool == {<<"I","N","P","U","T">>, <<"T","E","X","T","A","R","E","A">>, <<"S","E","L","E","C","T">>, <<"D","I","V">>}

TypePool == {Null, <<"t","e","x","t">>, <<"c","h","e","c","k","b","o","x">>, <<"r","a","d","i","o">>, <<"C","h","e","c","k","b","o","x">>, <<"R","A","D","I","O">>}

ThrowPool ==
  {"none", "tagName", "getAttribute", "focus", "value", "input", "change",
   "blur", "options"}

OptionsPool ==
  {<<>>,
   <<[text |-> <<"O","n"," ","s","i","t","e">>, value |-> <<"o","n","s","i","t","e">>],
     [text |-> <<" ","R","e","m","o","t","e"," ">>, value |-> <<"r">>]>>,
   <<[text |-> <<"R","e","m","o","t","e"," ","w","o","r","k">>, value |-> <<"r","e","m">>],
     [text |-> <<"O","t","h","e","r">>, value |-> <<"r">>],
     [text |-> <<"A","n","y","w","h","e","r","e">>, value |-> <<"R","E","M","O","T","E">>]>>,
   <<[text |-> <<"R","e","m","o","t","e"," ","w","o","r","k">>, value |-> <<"r","e","m","o","t","e","-","1">>],
     [text |-> <<"R","e","m">>, value |-> <<"r","e">>]>>,
   <<[text |-> <<"O","t","h","e","r">>, value |-> <<"x">>],
     [text |-> <<"R","e","m","o","t","e">>, value |-> <<"x">>]>>}

ValuePool == {Null, <<>>, <<"R","e","m","o","t","e">>, <<"r">>}

\* a select shows its first option until another one is chosen
FillInputs ==
  {[PlainInput EXCEPT !.tagName = t, !.type = ty, !.throwsAt = th,
                      !.options = IF t = <<"S","E","L","E","C","T">> THEN o ELSE <<>>,
                      !.selected = IF t = <<"S","E","L","E","C","T">> /\ o # <<>> THEN 1 ELSE 0,
                      !.value = IF t = <<"S","E","L","E","C","T">>
                                  THEN IF o # <<>> THEN o[1].value ELSE <<>>
                                  ELSE v0] :
     t \in TagPool, ty \in TypePool, th \in ThrowPool, o \in OptionsPool,
     v0 \in {<<>>, <<"o","l","d">>}}

InitFill ==
  /\ doc = <<>>
  /\ inv = <<>>
  /\ running = 0
  /\ bg = NoBackground
  /\ call \in {[done |-> FALSE, el0 |-> e, value |-> v,
                 out |-> [ret |-> FALSE, threw |-> FALSE, el |-> e]] :
                 e \in FillInputs, v \in ValuePool}

\* fillElement(el0, value) is called
Fill ==
  /\ ~call.done
  /\ call' = [call EXCEPT !.done = TRUE,
                          !.out = fillElement(call.el0, call.value)]
  /\ UNCHANGED <<doc, inv, running, bg>>

NextFill == Fill

SpecFill == InitFill /\ [][NextFill]_vars

\* C6: no exception leaves fillElement, whichever element access throws: the
\* call returns (false) to its caller.
C6_FillNeverThrows == call.done => (~call.out.threw /\ call.out.ret \in BOOLEAN)

\* an input or textarea whose type attribute reads checkbox or radio
IsChoice(el) ==
  /\ toLowerCase(el.tagName) \in {<<"i","n","p","u","t">>, <<"t","e","x","t","a","r","e","a">>}
  /\ el.type # Null
  /\ toLowerCase(el.type) \in {<<"c","h","e","c","k","b","o","x">>, <<"r","a","d","i","o">>}

\* C10: fillElement on a checkbox or radio element (its tag and type being
\* readable) returns false for every value and leaves the element as it
\* was: same value, no focus, no blur, no event.
C10_ChoiceRejected ==
  (/\ call.done
   /\ IsChoice(call.el0)
   /\ call.el0.throwsAt \notin {"tagName", "getAttribute"})
    => /\ call.out.ret = FALSE
       /\ ~call.out.threw
       /\ call.out.el = call.el0

\* a checkbox was given a non-null value and rejected
C10_Witness ==
  /\ call.done
  /\ IsChoice(call.el0)
  /\ call.el0.throwsAt = "none"
  /\ call.value = <<"R","e","m","o","t","e">>
  /\ call.out.ret = FALSE

\* the accesses of a text field that fillElement makes inside its try block
WriteAccesses == {"focus", "value", "input", "change", "blur"}

\* s without its leading and trailing white space
Strip(s) ==
  LET black == {i \in 1..Len(s) : s[i] \notin WhiteSpace}
  IN  IF black = {} THEN <<>>
      ELSE SubSeq(s, CHOOSE i \in black : \A j \in black : i <= j,
                     CHOOSE i \in black : \A j \in black : i >= j)

\* a and b are the same up to letter case and surrounding white space
EqualFold(a, b) ==
  LET x == Strip(a)
      y == Strip(b)
  IN  Len(x) = Len(y) /\ \A i \in 1..Len(x) : LowerChar(x[i]) = LowerChar(y[i])

\* the options whose text or value equals the value in that sense
ExactOptions(el, value) ==
  {i \in 1..Len(el.options) :
     EqualFold(el.options[i].text, value) \/ EqualFold(el.options[i].value, value)}

IsSelect(el) == toLowerCase(el.tagName) = <<"s","e","l","e","c","t">>

\* C11: fillElement on a select succeeds only if the text or the value of an
\* option equals the value up to letter case and surrounding white space,
\* never through an option that contains the value or is contained in it;
\* and with such an option it does succeed (no element access throwing).
C11_SelectExactMatchOnly ==
  (call.done /\ IsSelect(call.el0) /\ call.value # Null) =>
    /\ call.out.ret => ExactOptions(call.el0, call.value) # {}
    /\ (call.el0.throwsAt = "none" /\ ExactOptions(call.el0, call.value) # {})
         => call.out.ret

\* "Remote" selected through the option whose text is " Remote "
C11_Witness ==
  /\ call.done
  /\ IsSelect(call.el0)
  /\ call.value = <<"R","e","m","o","t","e">>
  /\ \E i \in 1..Len(call.el0.options) : call.el0.options[i].text = <<" ","R","e","m","o","t","e"," ">>
  /\ call.out.ret

\* C12: fillElement on a select without matching option returns false and
\* leaves the selected option and the value as they were, with no change
\* notification; with a matching option that option becomes the selected
\* one, change is dispatched and the result is true.
C12_SelectFrame ==
  (call.done /\ IsSelect(call.el0) /\ call.value # Null
     /\ call.el0.throwsAt = "none") =>
    LET exact == ExactOptions(call.el0, call.value)
    IN  IF exact = {}
          THEN call.out.ret = FALSE /\ call.out.el = call.el0
          ELSE /\ call.out.ret = TRUE
               /\ call.out.el.selected = CHOOSE i \in exact : \A j \in exact : i <= j
               /\ call.out.el.events = <<"value", "change">>

\* the order of the element accesses of a text field
TextFillOrder == <<"focus", "value", "input", "change", "blur">>

IsTextField(el) ==
  /\ toLowerCase(el.tagName) \in {<<"i","n","p","u","t">>, <<"t","e","x","t","a","r","e","a">>}
  /\ ~IsChoice(el)

\* C13: fillElement on a text input or textarea with a non-null value
\* focuses, assigns the value, dispatches input, dispatches change and
\* blurs, each once and in this order, returns true and leaves the element
\* with the value; an access that throws ends the sequence there and the
\* result is false.
C13_TextFillOrder ==
  (call.done /\ IsTextField(call.el0) /\ call.value # Null
     /\ call.el0.throwsAt \notin {"tagName", "getAttribute"}) =>
    IF call.el0.throwsAt \in WriteAccesses
      THEN /\ call.out.ret = FALSE
           /\ \E n \in 0..4 :
                /\ TextFillOrder[n + 1] = call.el0.throwsAt
                /\ call.out.el.events = SubSeq(TextFillOrder, 1, n)
      ELSE /\ call.out.ret = TRUE
           /\ call.out.el.events = TextFillOrder
           /\ call.out.el.value = call.value

\* a textarea that held "old" was filled with "Remote"
C13_Witness ==
  /\ call.done
  /\ call.el0.tagName = <<"T","E","X","T","A","R","E","A">>
  /\ call.el0.value = <<"o","l","d">>
  /\ call.el0.throwsAt = "none"
  /\ call.value = <<"R","e","m","o","t","e">>
  /\ call.out.ret
  /\ call.out.el.value = <<"R","e","m","o","t","e">>

\* C18: the category depends on the set of descriptive strings only: every
\* element with the same lowercased descriptive strings as the classified
\* one, whichever attribute holds them and in whatever case, gets the same
\* category.
C18_SameStringsSameCategory ==
  call.done =>
    \A e \in ClassifyInputs :
      DescriptiveStrings(e) = DescriptiveStrings(call.el0)
        => identifyFieldType(e) = call.out.key

\* id "EMAIL" classified as email, like the element named "email"
C18_Witness ==
  /\ call.done
  /\ call.el0.id = <<"E","M","A","I","L">>
  /\ call.el0.name = <<>>
  /\ call.out.key = "email"
  /\ \E e \in ClassifyInputs :
       /\ e.name = <<"e","m","a","i","l">>
       /\ e.id = <<>>
       /\ DescriptiveStrings(e) = DescriptiveStrings(call.el0)

\* the descriptive strings of an element as written in the document
RawStrings(el) ==
  {el.name, el.id, el.placeholder, el.ariaLabel, el.label} \ {Null, <<>>}

\* C20: every alias of FIELD_MAP is lowercase, so an element whose only
\* descriptive string is exactly an alias of a category is matched by that
\* alias.
C20_AliasMatchesItself ==
  call.done =>
    \A key \in DOMAIN FIELD_MAP : \A j \in 1..Len(FIELD_MAP[key]) :
      LET alias == FIELD_MAP[key][j]
      IN  RawStrings(call.el0) = {alias} =>
            /\ alias = toLowerCase(alias)
            /\ \E n \in 1..Len(DescriptiveAttrs(call.el0)) :
                 includes(DescriptiveAttrs(call.el0)[n], alias)

\* ------------------------------------------------------------------------
\* SpecResolve: the loop body on a classified field, over stored profiles
\* ------------------------------------------------------------------------
\* profiles with each name, location and link field present or absent
ProfilePool ==
  {[FullProfile EXCEPT !.fullName = fu, !.firstName = fi, !.lastName = la,
                       !.location = lo, !.city = ci, !.portfolio = po,
                       !.website = we, !.linkedin = li, !.github = gi] :
     fu \in {Null, <<>>, <<"A","."," ","L","o","v","e","l","a","c","e">>},
     fi \in {Null, <<"A","d","a">>},
     la \in {Null, <<"L","o","v","e","l","a","c","e">>},
     lo \in {Null, <<"R","e","m","o","t","e">>},
     ci \in {Null, <<"L","o","n","d","o","n">>},
     po \in {Null, <<>>, <<"a","d","a",".","d","e","v">>},
     we \in {Null, <<"a","d","a",".","i","o">>},
     li \in {Null, <<"i","n","/","a","d","a">>},
     gi \in {Null, <<"g","h","/","a","d","a">>}}

\* a name field, a location field, a portfolio field, a resume field, a
\* cover letter field and a phone field
ResolveFields ==
  {[PlainInput EXCEPT !.name = <<"f","u","l","l","_","n","a","m","e">>],
   [PlainInput EXCEPT !.id = <<"u","s","e","r","_","c","i","t","y">>],
   [PlainInput EXCEPT !.name = <<"w","e","b","s","i","t","e">>],
   [PlainInput EXCEPT !.id = <<"c","v">>, !.value = <<"o","l","d">>],
   [PlainInput EXCEPT !.tagName = <<"T","E","X","T","A","R","E","A">>, !.name = <<"c","o","v","e","r","_","l","e","t","t","e","r">>],
   [PlainInput EXCEPT !.name = <<"P","h","o","n","e">>]}

InitResolve ==
  /\ doc = <<>>
  /\ inv = <<>>
  /\ running = 0
  /\ bg = NoBackground
  /\ call \in {[done |-> FALSE, profile |-> p, el0 |-> e,
                 out |-> [key |-> NoKey, called |-> FALSE, inc |-> 0,
                          threw |-> FALSE, el |-> e]] :
                 p \in ProfilePool, e \in ResolveFields}

\* the loop body of autoFillForms runs on the element with the profile
Resolve ==
  /\ ~call.done
  /\ call' = [call EXCEPT !.done = TRUE,
                          !.out = FieldStep(call.profile, call.el0)]
  /\ UNCHANGED <<doc, inv, running, bg>>

NextResolve == Resolve

SpecResolve == InitResolve /\ [][NextResolve]_vars

\* a profile value that is there and not empty
Present(v) == v # Null /\ v # <<>>

\* the loop body wrote v into the field and counted it
Wrote(v) ==
  /\ call.out.called
  /\ call.out.inc = 1
  /\ call.out.el.value = v

\* the loop body left the field alone
NotWritten ==
  /\ ~call.out.called
  /\ call.out.inc = 0
  /\ call.out.el = call.el0

\* C14: a name field gets profile.fullName when present; otherwise firstName
\* and lastName joined by exactly one space, an absent half being left out
\* with no space in its place; with all three absent the field is not
\* written.
C14_NameResolution ==
  (call.done /\ call.out.key = "name") =>
    LET p == call.profile
    IN  CASE Present(p.fullName) -> Wrote(p.fullName)
          [] ~Present(p.fullName) /\ Present(p.firstName) /\ Present(p.lastName)
               -> Wrote(p.firstName \o <<" ">> \o p.lastName)
          [] ~Present(p.fullName) /\ Present(p.firstName) /\ ~Present(p.lastName)
               -> Wrote(p.firstName)
          [] ~Present(p.fullName) /\ ~Present(p.firstName) /\ Present(p.lastName)
               -> Wrote(p.lastName)
          [] OTHER -> NotWritten

\* {firstName "Ada", lastName "Lovelace"} without fullName gives "Ada Lovelace"
C14_Witness ==
  /\ call.done
  /\ call.out.key = "name"
  /\ ~Present(call.profile.fullName)
  /\ call.profile.firstName = <<"A","d","a">>
  /\ call.profile.lastName = <<"L","o","v","e","l","a","c","e">>
  /\ call.out.el.value = <<"A","d","a"," ","L","o","v","e","l","a","c","e">>

\* the first present value of a sequence of profile values
FirstPresent(vs) ==
  LET there == {i \in 1..Len(vs) : Present(vs[i])}
  IN  IF there = {} THEN Null
      ELSE vs[CHOOSE i \in there : \A j \in there : i <= j]

\* the profile values a category is filled from, in the order of preference;
\* none for resume and coverLetter
SourcesOf(p, key) ==
  CASE key = "name" -> <<p.fullName, p.firstName, p.lastName>>
    [] key = "email" -> <<p.email>>
    [] key = "phone" -> <<p.phone>>
    [] key = "location" -> <<p.location, p.city>>
    [] key = "portfolio" -> <<p.portfolio, p.website, p.linkedin, p.github>>
    [] OTHER -> <<>>

\* C24: a field classified as resume or coverLetter, and any classified
\* field with no present, non-empty profile value to fill it from, is not
\* written: fillElement is not called for it, it stays as it was and it
\* is not counted.
C24_NothingToWrite ==
  (call.done /\ call.out.key # NoKey) =>
    /\ call.out.key \in {"resume", "coverLetter"} => NotWritten
    /\ FirstPresent(SourcesOf(call.profile, call.out.key)) = Null => NotWritten

\* a resume field holding "old" was left alone, the profile lacking nothing
C24_Witness ==
  /\ call.done
  /\ call.out.key = "resume"
  /\ \A f \in DOMAIN call.profile \ {"phone"} : Present(call.profile[f])
  /\ call.el0.value = <<"o","l","d">>
  /\ call.out.el = call.el0
  /\ ~call.out.called

\* C15: a portfolio field gets the first present, non-empty value among
\* portfolio, website, linkedin and github, in that order; a location field
\* gets profile.location, else profile.city; with none present the field is
\* not written.
C15_FallbackChains ==
  (call.done /\ call.out.key \in {"portfolio", "location"}) =>
    LET p == call.profile
        v == IF call.out.key = "portfolio"
               THEN FirstPresent(<<p.portfolio, p.website, p.linkedin, p.github>>)
               ELSE FirstPresent(<<p.location, p.city>>)
    IN  IF v = Null THEN NotWritten ELSE Wrote(v)

\* an empty portfolio and no website: the field gets the linkedin value
C15_Witness ==
  /\ call.done
  /\ call.out.key = "portfolio"
  /\ call.profile.portfolio = <<>>
  /\ call.profile.website = Null
  /\ call.profile.linkedin = <<"i","n","/","a","d","a">>
  /\ call.profile.github = <<"g","h","/","a","d","a">>
  /\ call.out.el.value = <<"i","n","/","a","d","a">>

\* ------------------------------------------------------------------------
\* Spec: the content script serving one autoFillForm request on a document
\* of at most MaxFields fields.  SpecConcurrent: MaxInv requests on a
\* document of at most MaxConcFields fields.
\*
\* doc     [els: the field elements in document order,
\*          forms: document.forms, each [text: its innerText, fields: the
\*          positions in els of the input/textarea/select elements below it]]
\* inv     per request: where its autoFillForms call stands
\* running the request whose code holds the thread (0: none).  A handler
\*         runs to completion: nothing else runs until it awaits or ends.
\* ------------------------------------------------------------------------
MaxInv == 2

MaxFields == 3

MaxConcFields == 1

\* forms of a document in SpecDetect
MaxForms == 3

\* forms of a document in SpecMutation, and changes made to it
MaxMutForms == 2

MaxChanges == 2

JobKeywords ==
  <<<<"a","p","p","l","y">>, <<"a","p","p","l","i","c","a","t","i","o","n">>, <<"r","e","s","u","m","e">>, <<"c","v">>, <<"c","o","v","e","r"," ","l","e","t","t","e","r">>, <<"j","o","b">>,
    <<"p","o","s","i","t","i","o","n">>>>

\* mutant: the (truthy) empty array is returned instead of null
detectJobForm_emptyArray(d) ==
  LET hit(f) == \E k \in 1..Len(JobKeywords) :
                  includes(toLowerCase(d.forms[f].text), JobKeywords[k])
      RECURSIVE from(_)
      from(f) == IF f > Len(d.forms) THEN <<>>
                 ELSE IF hit(f) THEN <<f>> \o from(f + 1) ELSE from(f + 1)
  IN  [null |-> FALSE, forms |-> from(1)]

\* mutant: the form text is not lowercased before the comparison
detectJobForm_caseSensitive(d) ==
  LET hit(f) == \E k \in 1..Len(JobKeywords) :
                  includes(d.forms[f].text, JobKeywords[k])
      RECURSIVE from(_)
      from(f) == IF f > Len(d.forms) THEN <<>>
                 ELSE IF hit(f) THEN <<f>> \o from(f + 1) ELSE from(f + 1)
      matches == from(1)
  IN  [null |-> matches = <<>>, forms |-> matches]

\* document.forms filtered by the keywords; null when nothing is left
detectJobForm(d) ==
  LET hit(f) == \E k \in 1..Len(JobKeywords) :
                  includes(toLowerCase(d.forms[f].text), JobKeywords[k])
      RECURSIVE from(_)
      from(f) == IF f > Len(d.forms) THEN <<>>
                 ELSE IF hit(f) THEN <<f>> \o from(f + 1) ELSE from(f + 1)
      matches == from(1)
  IN  [null |-> matches = <<>>, forms |-> matches]

\* the response handed to the callback of sendMessage({action: 'getFormData'})
Undefined == [undefined |-> TRUE]

NullData == [null |-> TRUE]

Responses ==
  {Undefined,
   [success |-> FALSE, error |-> "Unknown action"],
   [success |-> TRUE, data |-> NullData],
   [success |-> TRUE, data |-> FullProfile]}

EmptyProfile ==
  [fullName |-> Null, firstName |-> Null, lastName |-> Null, email |-> Null,
   phone |-> Null, location |-> Null, city |-> Null, portfolio |-> Null,
   website |-> Null, linkedin |-> Null, github |-> Null]

\* mutant: a missing profile is replaced by an empty object
getProfileData_emptyObject(response) ==
  IF response # Undefined /\ response.success /\ response.data # NullData
    THEN response.data ELSE EmptyProfile

\* what getProfileData's promise resolves to
getProfileData(response) ==
  IF response # Undefined /\ response.success THEN response.data ELSE NullData

\* the elements visited by the two nested for loops, in order
RECURSIVE Visits(_, _, _)
Visits(d, forms, f) ==
  IF f > Len(forms) THEN <<>>
  ELSE d.forms[forms[f]].fields \o Visits(d, forms, f + 1)

\* mutant: the loop awaits inside its body
Yields_inLoop(pc) == pc \in {"await", "loop", "done", "rejected"}

\* where autoFillForms gives up the thread: at its await, and when the
\* handler is over
Yields(pc) == pc \in {"await", "done", "rejected"}

NoResult == [none |-> TRUE]

IdleInv ==
  [pc |-> "idle", forms |-> <<>>, profile |-> NullData, response |-> Undefined,
   k |-> 1, count |-> 0, result |-> NoResult, requests |-> 0, responses |-> 0,
   calls |-> <<>>, writes |-> 0, pred |-> {}, after |-> <<>>]

\* ---- documents -----------------------------------------------------------
EmailField == [PlainInput EXCEPT !.name = <<"e","m","a","i","l">>]

FieldPool ==
  {EmailField,
   [EmailField EXCEPT !.throwsAt = "value"],
   [EmailField EXCEPT !.throwsAt = "tagName"],
   [PlainInput EXCEPT !.name = <<"x","y","z">>]}

FormTexts == {<<"A","p","p","l","y"," ","f","o","r"," ","t","h","i","s"," ","J","o","b">>, <<"S","u","b","s","c","r","i","b","e">>}

Range(a, b) == [i \in 1..(b - a + 1) |-> a + i - 1]

\* a select of countries, its placeholder option selected
CountrySelect ==
  [PlainInput EXCEPT !.tagName = <<"S","E","L","E","C","T">>, !.name = <<"c","o","u","n","t","r","y">>,
                     !.options = <<[text |-> <<"C","h","o","o","s","e">>, value |-> <<>>],
                                   [text |-> <<"R","e","m","o","t","e">>, value |-> <<"r","e","m">>]>>,
                     !.selected = 1]

\* the fields of the documents of SpecTwice
TwiceFieldPool == FieldPool \cup {CountrySelect}

\* the fields of the documents of SpecConcurrent
ConcFieldPool == {EmailField, [EmailField EXCEPT !.throwsAt = "tagName"]}

DocumentsOf(pool, maxFields) ==
  LET FieldSeqs == UNION {[1..n -> pool] : n \in 0..maxFields}
      one(els) == {[els |-> els, forms |-> <<[text |-> t, fields |-> Range(1, Len(els))]>>] :
                     t \in FormTexts}
      two(els) == {[els |-> els,
                    forms |-> <<[text |-> t1, fields |-> Range(1, k)],
                                [text |-> t2, fields |-> Range(k + 1, Len(els))]>>] :
                     t1 \in FormTexts, t2 \in FormTexts, k \in 1..(Len(els) - 1)}
      nested(els) == {[els |-> els,
                       forms |-> <<[text |-> t1 \o <<" ">> \o t2,
                                    fields |-> Range(1, Len(els))],
                                   [text |-> t2, fields |-> Range(k, Len(els))]>>] :
                        t1 \in FormTexts, t2 \in FormTexts, k \in 1..Len(els)}
  IN  {[els |-> <<>>, forms |-> <<>>]}
        \cup UNION {one(els) \cup two(els) \cup nested(els) : els \in FieldSeqs}

Documents(maxFields) == DocumentsOf(FieldPool, maxFields)

Init ==
  /\ doc \in Documents(MaxFields)
  /\ inv = [i \in {1} |-> IdleInv]
  /\ running = 0
  /\ bg = NoBackground
  /\ call = NoCall

InitConcurrent ==
  /\ doc \in DocumentsOf(ConcFieldPool, MaxConcFields)
  /\ inv = [i \in 1..MaxInv |-> IdleInv]
  /\ running = 0
  /\ bg = NoBackground
  /\ call = NoCall

\* two requests on a document that may hold a select
InitTwice ==
  /\ doc \in DocumentsOf(TwiceFieldPool, MaxConcFields)
  /\ inv = [i \in {1, 2} |-> IdleInv]
  /\ running = 0
  /\ bg = NoBackground
  /\ call = NoCall

\* ---- actions -------------------------------------------------------------
\* the invocations that have handed over their result
Finished == {j \in DOMAIN inv : inv[j].pc = "done"}

\* the value and the selected option of every field of the document
FieldValues ==
  [e \in 1..Len(doc.els) |->
     [value |-> doc.els[e].value, selected |-> doc.els[e].selected]]

Settle(i, rec) ==
  /\ inv' = [inv EXCEPT ![i] = rec]
  /\ running' = IF Yields(rec.pc) THEN 0 ELSE i

\* mutant: the profile is requested before the forms are looked at
OnMessage_requestFirst(i) ==
  /\ running \in {0, i}
  /\ inv[i].pc = "idle"
  /\ Settle(i, [inv[i] EXCEPT
         !.pc = "await", !.pred = Finished,
         !.forms = detectJobForm(doc).forms, !.requests = @ + 1])
  /\ UNCHANGED <<doc, call, bg>>

\* the onMessage listener receives {action: 'autoFillForm'} and calls
\* autoFillForms, which runs up to its await
OnMessage(i) ==
  /\ running \in {0, i}
  /\ inv[i].pc = "idle"
  /\ LET found == detectJobForm(doc)
     IN  IF found.null
           THEN Settle(i, [inv[i] EXCEPT
                  !.pc = "return", !.pred = Finished,
                  !.result = [success |-> FALSE, reason |-> "No form detected"]])
           ELSE Settle(i, [inv[i] EXCEPT
                  !.pc = "await", !.pred = Finished,
                  !.forms = found.forms, !.requests = @ + 1])
  /\ UNCHANGED <<doc, call, bg>>

\* mutant: the forms are detected again when the profile arrives
ProfileCallback_redetect(i, response) ==
  /\ running \in {0, i}
  /\ inv[i].pc = "await"
  /\ LET profile == getProfileData(response)
     IN  IF profile = NullData
           THEN Settle(i, [inv[i] EXCEPT
                  !.pc = "return", !.response = response,
                  !.result = [success |-> FALSE, reason |-> "No profile data"]])
           ELSE Settle(i, [inv[i] EXCEPT
                  !.pc = "loop", !.response = response, !.profile = profile,
                  !.forms = detectJobForm(doc).forms,
                  !.k = 1, !.count = 0])
  /\ UNCHANGED <<doc, call, bg>>

\* the sendMessage callback runs with the response; autoFillForms resumes
ProfileCallback(i, response) ==
  /\ running \in {0, i}
  /\ inv[i].pc = "await"
  /\ LET profile == getProfileData(response)
     IN  IF profile = NullData
           THEN Settle(i, [inv[i] EXCEPT
                  !.pc = "return", !.response = response,
                  !.result = [success |-> FALSE, reason |-> "No profile data"]])
           ELSE Settle(i, [inv[i] EXCEPT
                  !.pc = "loop", !.response = response, !.profile = profile,
                  !.k = 1, !.count = 0])
  /\ UNCHANGED <<doc, call, bg>>

\* one iteration of the inner loop, or the return after the last one
LoopStep(i) ==
  /\ running \in {0, i}
  /\ inv[i].pc = "loop"
  /\ LET visits == Visits(doc, inv[i].forms, 1)
     IN  IF inv[i].k > Len(visits)
           THEN /\ Settle(i, [inv[i] EXCEPT
                       !.pc = "return",
                       !.result = [success |-> inv[i].count > 0,
                                   count |-> inv[i].count]])
                /\ doc' = doc
           ELSE LET e == visits[inv[i].k]
                    r == FieldStep(inv[i].profile, doc.els[e])
                IN  /\ doc' = [doc EXCEPT !.els[e] = r.el]
                    /\ Settle(i, [inv[i] EXCEPT
                         !.pc = IF r.threw THEN "rejected" ELSE "loop",
                         !.k = @ + 1,
                         !.count = @ + r.inc,
                         !.calls = IF r.called
                                     THEN Append(@, [el |-> e, ret |-> r.inc = 1,
                                                     threw |-> r.threw])
                                     ELSE @,
                         !.writes = @ + Len(r.el.events) - Len(doc.els[e].events)])
  /\ UNCHANGED <<call, bg>>

\* autoFillForms().then((result) => sendResponse(result))
Respond(i) ==
  /\ running \in {0, i}
  /\ inv[i].pc = "return"
  /\ Settle(i, [inv[i] EXCEPT !.pc = "done", !.responses = @ + 1,
                                !.after = FieldValues])
  /\ UNCHANGED <<doc, call, bg>>

Next ==
  \/ \E i \in DOMAIN inv : OnMessage(i)
  \/ \E i \in DOMAIN inv : \E response \in Responses : ProfileCallback(i, response)
  \/ \E i \in DOMAIN inv : LoopStep(i)
  \/ \E i \in DOMAIN inv : Respond(i)

Spec == Init /\ [][Next]_vars

SpecConcurrent == InitConcurrent /\ [][Next]_vars

SpecTwice == InitTwice /\ [][Next]_vars


\* ------------------------------------------------------------------------
\* Properties of autoFillForms
\* ------------------------------------------------------------------------
\* no form of the document has a job keyword in its lowercased text
NoJobForm(d) ==
  \A f \in 1..Len(d.forms) :
    \A k \in 1..Len(JobKeywords) :
      ~includes(toLowerCase(d.forms[f].text), JobKeywords[k])

\* no element of the document was written to, focused, blurred or notified
DocUntouched ==
  \A e \in 1..Len(doc.els) :
    doc.els[e].events = <<>> /\ doc.els[e].value = <<>>

\* C4: on a document without a keyword-matching form autoFillForms leaves
\* with {success: false, reason: "No form detected"} and has written
\* nothing to any element.
C4_NoFormShortCircuit ==
  \A i \in DOMAIN inv :
    (NoJobForm(doc) /\ inv[i].pc # "idle") =>
      /\ inv[i].pc \in {"return", "done"}
      /\ inv[i].result = [success |-> FALSE, reason |-> "No form detected"]
      /\ inv[i].writes = 0
      /\ inv[i].calls = <<>>
      /\ DocUntouched

\* a document that has a form, but none with a keyword, was answered
C4_Witness ==
  /\ Len(doc.forms) > 0
  /\ Len(doc.els) > 0
  /\ inv[1].pc = "done"
  /\ inv[1].result = [success |-> FALSE, reason |-> "No form detected"]

\* no response, a response without success, or one whose data is null
FalsyResponse(r) ==
  \/ r = Undefined
  \/ ~r.success
  \/ r.data = NullData

\* C5: with a form detected and a falsy or absent answer of the profile
\* collaborator autoFillForms leaves with {success: false, reason: "No
\* profile data"} and has written nothing to any element.
C5_NoProfileShortCircuit ==
  \A i \in DOMAIN inv :
    (/\ inv[i].pc \notin {"idle", "await"}
     /\ inv[i].forms # <<>>
     /\ FalsyResponse(inv[i].response)) =>
      /\ inv[i].pc \in {"return", "done"}
      /\ inv[i].result = [success |-> FALSE, reason |-> "No profile data"]
      /\ inv[i].writes = 0
      /\ inv[i].calls = <<>>
      /\ DocUntouched

\* a form with a fillable field was detected and the answer had null data
C5_Witness ==
  /\ inv[1].pc = "done"
  /\ inv[1].forms # <<>>
  /\ \E e \in 1..Len(doc.els) : doc.els[e] = EmailField
  /\ inv[1].response = [success |-> TRUE, data |-> NullData]
  /\ inv[1].result = [success |-> FALSE, reason |-> "No profile data"]

\* C7: no exception leaves the component unhandled, and every request that
\* has been dealt with was given exactly one result through sendResponse.
C7_AlwaysOneResponse ==
  \A i \in DOMAIN inv :
    /\ inv[i].pc # "rejected"
    /\ inv[i].responses <= 1
    /\ inv[i].pc = "done" => inv[i].responses = 1

\* the element has a category and the profile a value for it
Fillable(el, profile) ==
  LET hits == CategoryHits(el)
  IN  /\ hits # {}
      /\ ~Falsy(ResolveValue(profile,
                  FieldKeys[CHOOSE k \in hits : \A m \in hits : k <= m]))

\* the positions of the loop at which a fill succeeded, among the first n
Filled(i, n) ==
  LET visits == Visits(doc, inv[i].forms, 1)
  IN  {p \in 1..n : /\ Fillable(doc.els[visits[p]], inv[i].profile)
                    /\ doc.els[visits[p]].throwsAt = "none"}

\* C8: a field whose write throws neither ends the loop nor is counted nor
\* undoes an earlier fill: the loop visits every field of every detected
\* form, the fields filled before keep their value, the count is the number
\* of fills that went through, and the result is a failure only when that
\* number is 0; only an exception outside fillElement's try block ends the
\* loop early.
C8_BestEffort ==
  \A i \in DOMAIN inv :
    LET visits == Visits(doc, inv[i].forms, 1)
        done   == inv[i].k - 1
    IN  /\ (inv[i].pc \in {"loop", "return", "done"} /\ inv[i].profile # NullData) =>
             /\ inv[i].count = Cardinality(Filled(i, done))
             /\ \A p \in Filled(i, done) :
                  doc.els[visits[p]].value = inv[i].profile.email
             /\ inv[i].pc \in {"return", "done"} =>
                  /\ done = Len(visits)
                  /\ inv[i].result = [success |-> Cardinality(Filled(i, done)) > 0,
                                      count |-> Cardinality(Filled(i, done))]
        /\ inv[i].pc = "rejected" =>
             doc.els[visits[done]].throwsAt \notin WriteAccesses

\* one form of three fillable fields, the second of which throws when its
\* value is assigned: the result is {success: true, count: 2}
C8_Witness ==
  /\ Len(doc.forms) = 1
  /\ doc.forms[1].fields = <<1, 2, 3>>
  /\ doc.els[1].throwsAt = "none" /\ Fillable(doc.els[1], FullProfile)
  /\ doc.els[2].throwsAt = "value" /\ Fillable(doc.els[2], FullProfile)
  /\ doc.els[3].throwsAt = "none" /\ Fillable(doc.els[3], FullProfile)
  /\ inv[1].pc = "done"
  /\ inv[1].result = [success |-> TRUE, count |-> 2]
  /\ doc.els[1].value = FullProfile.email
  /\ doc.els[3].value = FullProfile.email

\* C9: with a form detected and a profile present autoFillForms returns
\* {success: count > 0, count}, count being the number of fillElement calls
\* that returned true, and no field is attempted twice.
C9_CountsEachFieldOnce ==
  \A i \in DOMAIN inv :
    (/\ inv[i].pc \in {"done", "rejected"}
     /\ inv[i].forms # <<>>
     /\ inv[i].profile # NullData) =>
      LET n == Cardinality({c \in 1..Len(inv[i].calls) : inv[i].calls[c].ret})
      IN  /\ inv[i].pc = "done"
          /\ inv[i].result = [success |-> n > 0, count |-> n]
          /\ \A c, d \in 1..Len(inv[i].calls) :
               inv[i].calls[c].el = inv[i].calls[d].el => c = d

\* the invocation has started and not finished
InFlight(i) == inv[i].pc \notin {"idle", "done", "rejected"}

\* C3 as stated: the steps of two invocations never interleave, so at any
\* time at most one invocation has started and not finished.
C3_NoInterleaving ==
  \A i, j \in DOMAIN inv : (InFlight(i) /\ InFlight(j)) => i = j

\* C3 as amended: autoFillForms suspends only at its await of
\* getProfileData, between detection and the profile check; from there to
\* the result handed to sendResponse (profile check, field writes, return)
\* no other invocation takes a step.
C3_AtomicAfterAwait ==
  [][\A i, j \in DOMAIN inv :
       (i # j /\ inv[i].pc \in {"loop", "return"}) => inv'[j] = inv[j]]_vars

\* one invocation is in its loop, having written, while another awaits
C3_Witness ==
  \E i, j \in DOMAIN inv :
    /\ i # j
    /\ inv[i].pc = "loop" /\ inv[i].writes > 0
    /\ inv[j].pc = "await"

\* C25: the form check comes before the profile request: with no form
\* detected no getFormData request is sent, no answer is awaited and the
\* reason reported is "No form detected", never "No profile data"; a request
\* is sent at most once and only with detected forms in hand.
C25_FormCheckFirst ==
  \A i \in DOMAIN inv :
    /\ inv[i].requests <= 1
    /\ NoJobForm(doc) =>
         /\ inv[i].requests = 0
         /\ inv[i].pc # "await"
         /\ inv[i].response = Undefined
         /\ inv[i].result # NoResult =>
              inv[i].result = [success |-> FALSE, reason |-> "No form detected"]
    /\ inv[i].requests = 1 => inv[i].forms # <<>> /\ ~NoJobForm(doc)
    /\ inv[i].result = [success |-> FALSE, reason |-> "No profile data"] =>
         inv[i].requests = 1 /\ inv[i].forms # <<>>

\* two forms without keyword: answered "No form detected", nothing requested
C25_Witness ==
  /\ Len(doc.forms) = 2
  /\ NoJobForm(doc)
  /\ inv[1].pc = "done"
  /\ inv[1].requests = 0
  /\ inv[1].responses = 1
  /\ inv[1].result = [success |-> FALSE, reason |-> "No form detected"]

\* the positions of the loop whose field has a category with a profile value
Matched(i) ==
  LET visits == Visits(doc, inv[i].forms, 1)
  IN  {p \in 1..Len(visits) : Fillable(doc.els[visits[p]], inv[i].profile)}

\* every matched field of the loop throws when it is written
AllWritesFail(i) ==
  LET visits == Visits(doc, inv[i].forms, 1)
  IN  \A p \in Matched(i) : doc.els[visits[p]].throwsAt \in WriteAccesses

\* C19: a run in which no field matched and a run in which every matched
\* field failed to be written return the same result object,
\* {success: false, count: 0}, with nothing that tells them apart.
C19_ZeroAndFailedAlike ==
  \A i \in DOMAIN inv :
    (inv[i].pc = "done" /\ inv[i].profile # NullData) =>
      /\ Matched(i) = {} => inv[i].result = [success |-> FALSE, count |-> 0]
      /\ (Matched(i) # {} /\ AllWritesFail(i))
           => inv[i].result = [success |-> FALSE, count |-> 0]

\* two matched fields, both throwing at the assignment: count 0
C19_Witness ==
  /\ inv[1].pc = "done"
  /\ inv[1].profile = FullProfile
  /\ Cardinality(Matched(1)) = 2
  /\ AllWritesFail(1)
  /\ inv[1].calls # <<>>
  /\ inv[1].result = [success |-> FALSE, count |-> 0]

\* invocation j started after invocation i had handed over its result, and
\* both got the same profile
InSuccession(i, j) ==
  /\ inv[i].pc = "done"
  /\ inv[j].pc = "done"
  /\ i \in inv[j].pred
  /\ inv[i].profile = inv[j].profile
  /\ \A k \in DOMAIN inv \ {i, j} : inv[k].pc = "idle" \/ k \in inv[i].pred

\* C16: of two runs of autoFillForms in succession with the same profile on
\* the same form, the second leaves every field with the value it had after
\* the first, and both return the same result.
C16_Idempotent ==
  \A i \in DOMAIN inv : \A j \in DOMAIN inv :
    InSuccession(i, j) =>
      /\ inv[j].after = inv[i].after
      /\ inv[j].result = inv[i].result

\* two runs in succession that each filled the one field of the form
C16_Witness ==
  \E i \in DOMAIN inv : \E j \in DOMAIN inv :
    /\ InSuccession(i, j)
    /\ inv[i].profile = FullProfile
    /\ inv[i].result = [success |-> TRUE, count |-> 1]
    /\ inv[j].result = [success |-> TRUE, count |-> 1]
    /\ Len(doc.els) = 1
    /\ doc.els[1].value # PlainInput.value

\* ------------------------------------------------------------------------
\* SpecDetect: detectJobForm over documents of forms
\* ------------------------------------------------------------------------
DetectTexts ==
  {<<"A","p","p","l","y"," ","n","o","w">>, <<"S","e","n","d"," ","y","o","u","r"," ","C","V">>, <<"J","o","b"," ","a","p","p","l","i","c","a","t","i","o","n">>, <<"O","p","e","n"," ","P","o","s","i","t","i","o","n","s">>,
   <<"N","e","w","s","l","e","t","t","e","r">>, <<>>}

\* documents of up to MaxForms forms without fields
DetectDocuments ==
  UNION {{[els |-> <<>>,
           forms |-> [f \in 1..n |-> [text |-> ts[f], fields |-> <<>>]]] :
            ts \in [1..n -> DetectTexts]} : n \in 0..MaxForms}

InitDetect ==
  /\ doc \in DetectDocuments
  /\ inv = <<>>
  /\ running = 0
  /\ bg = NoBackground
  /\ call = [done |-> FALSE, doc0 |-> <<>>, out |-> [null |-> TRUE, forms |-> <<>>]]

\* detectJobForm runs on the document
Detect ==
  /\ ~call.done
  /\ call' = [done |-> TRUE, doc0 |-> doc, out |-> detectJobForm(doc)]
  /\ UNCHANGED <<doc, inv, running, bg>>

NextDetect == Detect

SpecDetect == InitDetect /\ [][NextDetect]_vars

\* the keyword occurs in the text when letter case is ignored
ContainsFold(text, kw) ==
  \E start \in 1..Len(text) :
    /\ start + Len(kw) - 1 <= Len(text)
    /\ \A i \in 1..Len(kw) : LowerChar(text[start + i - 1]) = kw[i]

\* the forms of the document with a job keyword in their text
KeywordForms(d) ==
  {f \in 1..Len(d.forms) :
     \E k \in 1..Len(JobKeywords) : ContainsFold(d.forms[f].text, JobKeywords[k])}

\* C17: detectJobForm returns exactly the forms whose lowercased text
\* contains a job keyword, in document order and each once; it returns null
\* exactly when there is no such form; the document is left as it was.
C17_DetectExact ==
  call.done =>
    LET out == call.out
    IN  /\ out.null = (KeywordForms(doc) = {})
        /\ {out.forms[n] : n \in 1..Len(out.forms)} = KeywordForms(doc)
        /\ \A m \in 1..Len(out.forms) : \A n \in 1..Len(out.forms) :
             m < n => out.forms[m] < out.forms[n]
        /\ doc = call.doc0

\* first and third of three forms returned, the second has no keyword
C17_Witness ==
  /\ call.done
  /\ Len(doc.forms) = 3
  /\ doc.forms[1].text = <<"J","o","b"," ","a","p","p","l","i","c","a","t","i","o","n">>
  /\ doc.forms[2].text = <<"N","e","w","s","l","e","t","t","e","r">>
  /\ doc.forms[3].text = <<"S","e","n","d"," ","y","o","u","r"," ","C","V">>
  /\ call.out.forms = <<1, 3>>

\* ------------------------------------------------------------------------
\* SpecCors: the origin callback of the backend's CORS options
\* ------------------------------------------------------------------------
\* the number of letters of an extension id in allowedOrigins' pattern
ExtensionIdLen == 32

ExtensionPrefix == <<"c","h","r","o","m","e","-","e","x","t","e","n","s","i","o","n",":","/","/">>

LowerSet == {LowerChars[i] : i \in 1..Len(LowerChars)}

\* /^chrome-extension:\/\/[a-z]{32}$/.test(origin)
ExtensionPattern(origin) ==
  LET n == Len(ExtensionPrefix)
  IN  /\ Len(origin) = n + ExtensionIdLen
      /\ SubSeq(origin, 1, n) = ExtensionPrefix
      /\ \A i \in (n + 1)..Len(origin) : origin[i] \in LowerSet

\* allowedOrigins: two strings and one pattern
allowedOrigins ==
  <<[string |-> <<"h","t","t","p","s",":","/","/","m","e","x","t","y","1","0","1",".","w","e","b",".","a","p","p">>],
    [string |-> <<"h","t","t","p","s",":","/","/","m","e","x","t","y","1","0","1",".","f","i","r","e","b","a","s","e","a","p","p",".","c","o","m">>],
    [regexp |-> "extension"]>>

\* corsOptions.origin: what is handed to the callback
corsOrigin(origin) ==
  IF Falsy(origin) THEN [error |-> "none", allow |-> TRUE]
  ELSE LET isAllowed ==
             \E k \in 1..Len(allowedOrigins) :
               IF "string" \in DOMAIN allowedOrigins[k]
                 THEN origin = allowedOrigins[k].string
                 ELSE ExtensionPattern(origin)
       IN  IF isAllowed THEN [error |-> "none", allow |-> TRUE]
           ELSE [error |-> "Not allowed by CORS", allow |-> FALSE]

\* ids of ExtensionIdLen - 1 to ExtensionIdLen + 1 letters "a", with at most
\* one character replaced
ExtensionIds ==
  UNION {{[i \in 1..n |-> "a"]}
           \cup {[i \in 1..n |-> IF i = q THEN c ELSE "a"] :
                   q \in 1..n, c \in {"z", "A", "1", "/"}} :
         n \in (ExtensionIdLen - 1)..(ExtensionIdLen + 1)}

\* Origin headers: none, empty, the literal "null", the two sites and
\* variations of them, and extension origins
OriginPool ==
  {Null, <<>>, <<"n","u","l","l">>,
   <<"h","t","t","p","s",":","/","/","m","e","x","t","y","1","0","1",".","w","e","b",".","a","p","p">>, <<"h","t","t","p","s",":","/","/","m","e","x","t","y","1","0","1",".","f","i","r","e","b","a","s","e","a","p","p",".","c","o","m">>,
   <<"h","t","t","p",":","/","/","m","e","x","t","y","1","0","1",".","w","e","b",".","a","p","p">>, <<"h","t","t","p","s",":","/","/","m","e","x","t","y","1","0","1",".","w","e","b",".","a","p","p","/">>,
   <<"h","t","t","p","s",":","/","/","m","e","x","t","y","1","0","1",".","w","e","b",".","a","p","p",".","e","v","i","l",".","i","o">>, <<"h","t","t","p","s",":","/","/","M","E","X","T","Y","1","0","1",".","w","e","b",".","a","p","p">>,
   <<"h","t","t","p","s",":","/","/","e","v","i","l",".","i","o">>}
    \cup {pre \o id : pre \in {ExtensionPrefix, <<"c","h","r","o","m","e","-","e","x","t","e","n","s","i","o","n",":","/">>,
                               <<"m","o","z","-","e","x","t","e","n","s","i","o","n",":","/","/">>},
                      id \in ExtensionIds}

InitCors ==
  /\ doc = <<>>
  /\ inv = <<>>
  /\ running = 0
  /\ bg = NoBackground
  /\ call \in {[done |-> FALSE, origin |-> o,
                 out |-> [error |-> "none", allow |-> FALSE]] : o \in OriginPool}

\* the cors middleware asks corsOptions.origin about the request's Origin
CorsCheck ==
  /\ ~call.done
  /\ call' = [call EXCEPT !.done = TRUE, !.out = corsOrigin(call.origin)]
  /\ UNCHANGED <<doc, inv, running, bg>>

NextCors == CorsCheck

SpecCors == InitCors /\ [][NextCors]_vars

\* the origin is one of the two sites or an extension origin
ListedOrigin(origin) ==
  \/ origin = <<"h","t","t","p","s",":","/","/","m","e","x","t","y","1","0","1",".","w","e","b",".","a","p","p">>
  \/ origin = <<"h","t","t","p","s",":","/","/","m","e","x","t","y","1","0","1",".","f","i","r","e","b","a","s","e","a","p","p",".","c","o","m">>
  \/ /\ Len(origin) = Len(ExtensionPrefix) + ExtensionIdLen
     /\ \A i \in 1..Len(origin) :
          IF i <= Len(ExtensionPrefix) THEN origin[i] = ExtensionPrefix[i]
          ELSE \E l \in 1..Len(LowerChars) : origin[i] = LowerChars[l]

\* C21: a request is accepted only if its Origin is one of the two sites or
\* chrome-extension:// followed by exactly 32 lowercase letters; every other
\* request is rejected with 'Not allowed by CORS'.
C21_OnlyListedOrigins ==
  call.done =>
    IF ListedOrigin(call.origin)
      THEN call.out = [error |-> "none", allow |-> TRUE]
      ELSE call.out = [error |-> "Not allowed by CORS", allow |-> FALSE]

\* ------------------------------------------------------------------------
\* SpecAi: the unified AI endpoint (exports.ai) behind the cors middleware
\* ------------------------------------------------------------------------
\* a body field that is not there
Absent == "<absent>"

\* !message || typeof message !== 'string'
InvalidMessage(message) ==
  \/ message.type # "string"
  \/ message.text = ""

\* const { model = 'gemini' } = req.body
ModelOf(body) == IF body.model = Absent THEN "gemini" ELSE body.model

AiError(status, error, message) ==
  [status |-> status, error |-> error, message |-> message]

\* mutant: the model is validated before the message
aiStart_modelFirst(req) ==
  LET model == ModelOf(req.body)
      send(r) == [pc |-> "done", calls |-> <<>>, responses |-> <<r>>]
  IN  IF req.method # "POST"
        THEN send(AiError(405, "Method not allowed",
                          "Only POST requests are accepted"))
      ELSE IF model \notin {"gemini", "openai"}
        THEN send(AiError(400, "Invalid model",
                          "Model must be either \"gemini\" or \"openai\""))
      ELSE IF InvalidMessage(req.body.message)
        THEN send(AiError(400, "Invalid input",
                          "Message is required and must be a string"))
      ELSE IF req.body.history = "malformed"
        THEN send(AiError(500, "Failed to process request", "history.map"))
      ELSE [pc |-> "awaiting", calls |-> <<model>>, responses |-> <<>>]

\* the handler up to its first await: it answers, or it has called the
\* provider chosen by model and awaits it
aiStart(req) ==
  LET model == ModelOf(req.body)
      send(r) == [pc |-> "done", calls |-> <<>>, responses |-> <<r>>]
  IN  IF req.method # "POST"
        THEN send(AiError(405, "Method not allowed",
                          "Only POST requests are accepted"))
      ELSE IF InvalidMessage(req.body.message)
        THEN send(AiError(400, "Invalid input",
                          "Message is required and must be a string"))
      ELSE IF model \notin {"gemini", "openai"}
        THEN send(AiError(400, "Invalid model",
                          "Model must be either \"gemini\" or \"openai\""))
      ELSE IF req.body.history = "malformed"
        THEN send(AiError(500, "Failed to process request", "history.map"))
      ELSE [pc |-> "awaiting", calls |-> <<model>>, responses |-> <<>>]

\* the handler after the provider's promise has settled
aiFinish(req, provider, outcome) ==
  IF outcome = "rejected"
    THEN AiError(500, "Failed to process request", "provider")
    ELSE [status |-> 200, response |-> <<"reply of", provider>>,
          model |-> ModelOf(req.body)]

AiMessages ==
  {[type |-> "undefined", text |-> ""], [type |-> "string", text |-> ""],
   [type |-> "string", text |-> "Hello"], [type |-> "number", text |-> ""]}

AiRequests ==
  {[method |-> m, body |-> [message |-> msg, model |-> mo, history |-> h]] :
     m \in {"POST", "GET", "PUT"},
     msg \in AiMessages,
     mo \in {Absent, "gemini", "openai", "claude", "OpenAI", ""},
     h \in {Absent, "array", "malformed"}}

InitAi ==
  /\ doc = <<>>
  /\ inv = <<>>
  /\ running = 0
  /\ bg = NoBackground
  /\ call \in {[pc |-> "new", req |-> r, calls |-> <<>>, responses |-> <<>>,
                 outcome |-> "none"] : r \in AiRequests}

\* the request reaches the handler, which runs up to its first await
AiRequest ==
  /\ call.pc = "new"
  /\ LET s == aiStart(call.req)
     IN  call' = [call EXCEPT !.pc = s.pc, !.calls = s.calls,
                              !.responses = s.responses]
  /\ UNCHANGED <<doc, inv, running, bg>>

\* the provider's promise settles and the handler answers
AiProviderSettles(outcome) ==
  /\ call.pc = "awaiting"
  /\ call' = [call EXCEPT
       !.pc = "done", !.outcome = outcome,
       !.responses = Append(@, aiFinish(call.req, call.calls[1], outcome))]
  /\ UNCHANGED <<doc, inv, running, bg>>

NextAi ==
  \/ AiRequest
  \/ \E outcome \in {"fulfilled", "rejected"} : AiProviderSettles(outcome)

SpecAi == InitAi /\ [][NextAi]_vars

AliasInputs ==
  LET strings == UNION {{pre \o FIELD_MAP[key][j] \o post :
                            j \in 1..Len(FIELD_MAP[key]),
                            pre \in {<<>>, <<"u","s","e","r","_">>},
                            post \in {<<>>, <<" ","*">>}} :
                          key \in DOMAIN FIELD_MAP}
  IN  {[PlainInput EXCEPT !.name = s] : s \in strings}
        \cup {[PlainInput EXCEPT !.id = s] : s \in strings}
        \cup {[PlainInput EXCEPT !.placeholder = s] : s \in strings}
        \cup {[PlainInput EXCEPT !.ariaLabel = s] : s \in strings}
        \cup {[PlainInput EXCEPT !.label = s] : s \in strings}

InitAlias ==
  /\ doc = <<>>
  /\ inv = <<>>
  /\ running = 0
  /\ bg = NoBackground
  /\ call \in {[done |-> FALSE, el0 |-> e,
                 out |-> [key |-> NoKey, called |-> FALSE, inc |-> 0,
                          threw |-> FALSE, el |-> e]] :
                 e \in AliasInputs}

SpecAlias == InitAlias /\ [][NextClassify]_vars

\* the string contains a lowercased alias of the category
HasAliasOf(s, key) ==
  \E j \in 1..Len(FIELD_MAP[key]) : includes(s, toLowerCase(FIELD_MAP[key][j]))

\* the categories that no element is classified as
ShadowedKeys == {"firstName", "lastName", "linkedin", "github"}

\* C23: identifyFieldType never returns firstName, lastName, linkedin or
\* github: a descriptive string with an alias of firstName or lastName
\* contains "name" and the element is classified as name and filled with the
\* full name; a string with an alias of linkedin or github contains
\* portfolio's "linkedin" or "github" and the element is classified as
\* portfolio (or a category declared before it) and filled by that rule.
C23_ShadowedCategories ==
  call.done =>
    /\ call.out.key \notin ShadowedKeys
    /\ \A s \in DescriptiveStrings(call.el0) :
         /\ (HasAliasOf(s, "firstName") \/ HasAliasOf(s, "lastName")) =>
              /\ includes(s, <<"n","a","m","e">>)
              /\ call.out.key = "name"
              /\ call.out.el.value = FullProfile.fullName
         /\ (HasAliasOf(s, "linkedin") \/ HasAliasOf(s, "github")) =>
              /\ includes(s, <<"l","i","n","k","e","d","i","n">>) \/ includes(s, <<"g","i","t","h","u","b">>)
              /\ \E k \in 1..Len(FieldKeys) :
                   /\ FieldKeys[k] = call.out.key
                   /\ \A m \in 1..(k - 1) : FieldKeys[m] # "portfolio"
              /\ DescriptiveStrings(call.el0) = {s} =>
                   /\ call.out.key = "portfolio"
                   /\ call.out.el.value = FullProfile.portfolio

\* id "user_linkedin_url" classified as portfolio and filled with the
\* portfolio address
C23_Witness ==
  /\ call.done
  /\ call.el0.id = <<"u","s","e","r","_","l","i","n","k","e","d","i","n","_","u","r","l">>
  /\ call.out.key = "portfolio"
  /\ call.out.el.value = FullProfile.portfolio

\* ------------------------------------------------------------------------
\* SpecMutation: one request on a document that the page changes meanwhile
\* ------------------------------------------------------------------------
\* documents of up to MaxMutForms sibling forms, each with one email field
MutationDocuments ==
  UNION {{[els |-> [e \in 1..n |-> EmailField],
           forms |-> [f \in 1..n |-> [text |-> ts[f], fields |-> <<f>>]]] :
            ts \in [1..n -> FormTexts]} : n \in 1..MaxMutForms}

InitMutation ==
  /\ doc \in MutationDocuments
  /\ inv = [i \in {1} |-> IdleInv]
  /\ running = 0
  /\ bg = NoBackground
  /\ call = [done |-> TRUE, changes |-> 0, notices |-> 0]

\* the page replaces the text of a form while no script of the extension
\* runs; the MutationObserver callback detects again and notifies the
\* background when there is a job form
DocChange(f, text) ==
  /\ running = 0
  /\ call.changes < MaxChanges
  /\ f \in 1..Len(doc.forms)
  /\ doc.forms[f].text # text
  /\ doc' = [doc EXCEPT !.forms[f].text = text]
  /\ call' = [call EXCEPT
       !.changes = @ + 1,
       !.notices = IF detectJobForm(doc').null THEN @ ELSE @ + 1]
  /\ UNCHANGED <<inv, running, bg>>

NextMutation ==
  \/ Next
  \/ \E f \in 1..MaxMutForms : \E text \in FormTexts : DocChange(f, text)

SpecMutation == InitMutation /\ [][NextMutation]_vars

\* the fields of the forms an invocation holds
FieldsOf(i) ==
  UNION {{doc.forms[inv[i].forms[n]].fields[m] :
            m \in 1..Len(doc.forms[inv[i].forms[n]].fields)} :
         n \in 1..Len(inv[i].forms)}

\* C26: the forms an invocation fills are those that matched when it
\* started: they are detected in the step that starts it, the list is never
\* replaced afterwards, not when the profile arrives and not when the
\* document changes, and a step writes only to fields of those forms.
C26_DetectOnce ==
  [][\A i \in DOMAIN inv :
       /\ (inv[i].pc = "idle" /\ inv'[i].pc # "idle") =>
            {inv'[i].forms[n] : n \in 1..Len(inv'[i].forms)} = KeywordForms(doc)
       /\ inv[i].pc # "idle" => inv'[i].forms = inv[i].forms
       /\ \A e \in DOMAIN doc.els :
            doc'.els[e] # doc.els[e] => e \in FieldsOf(i)]_vars

\* the form that matched at the start was filled although it has no keyword
\* any more, and the form that has one now was left alone
C26_Witness ==
  /\ Len(doc.forms) = 2
  /\ inv[1].pc = "done"
  /\ inv[1].forms = <<1>>
  /\ KeywordForms(doc) = {2}
  /\ doc.els[1].value = FullProfile.email
  /\ doc.els[2] = EmailField
  /\ inv[1].result = [success |-> TRUE, count |-> 1]

\* ------------------------------------------------------------------------
\* SpecHub: the background service worker and its message hub
\* ------------------------------------------------------------------------
\* messages the hub handles in one run
MaxTasks == 2

\* null / undefined in the background's variables and in chrome.storage
NoValue == "null"

HubActions ==
  {"getAuthToken", "login", "logout", "getUserData", "syncProfile",
   "getFormData", "notifyUser", "bogus"}

\* a handler of the hub: the message's action, where its async function
\* stands, the responses sent, the outcomes its awaits have had, the number
\* of logouts completed when it started, the arguments of its pending
\* chrome.storage.local.set, and the content invocation that sent it (0 when
\* it is another sender)
NewTask(action, from, b) ==
  [action |-> action, from |-> from, pc |-> "start", sent |-> <<>>,
   outcomes |-> <<>>, epoch |-> b.logouts,
   held |-> [authToken |-> NoValue, userData |-> NoValue]]

\* sendResponse(r), after which the handler is over
HubSend(task, r) == [task EXCEPT !.pc = "done", !.sent = Append(@, r)]

\* mutant: no try/catch around the switch of the hub
HubCatch_silent(task, error) == [task EXCEPT !.pc = "done"]

\* the catch block of the hub
HubCatch(task, error) == HubSend(task, [success |-> FALSE, error |-> error])

\* startSyncInterval()
startSyncInterval(b) == [b EXCEPT !.syncInterval = TRUE]

\* mutant: a failure of the backend request is not caught
getFormFillData_unguarded(outcome) ==
  IF outcome = "ok" THEN [value |-> FullProfile] ELSE [thrown |-> outcome]

\* getFormFillData after sendToBackend has settled: result.data, or null
\* when the request threw, was not OK or said success false
getFormFillData(outcome) ==
  IF outcome = "ok" THEN [value |-> FullProfile] ELSE [value |-> NullData]

\* case 'getFormData' of the hub, with the catch block behind it
AnswerFormData(task, outcome) ==
  LET formData == getFormFillData(outcome)
  IN  IF "thrown" \in DOMAIN formData
        THEN HubCatch(task, formData.thrown)
        ELSE HubSend(task, [success |-> TRUE, data |-> formData.value])

\* the handler of task n up to its first await of storage or network
Begin(b, n) ==
  LET t == b.tasks[n]
      put(task) == [b EXCEPT !.tasks[n] = task]
      at(pc) == put([t EXCEPT !.pc = pc])
  IN  CASE t.action = "getAuthToken" ->
             IF b.authToken # NoValue
               THEN put(HubSend(t, [token |-> b.authToken]))
               ELSE at("get")
        [] t.action = "login" -> at("fetch")
        [] t.action = "logout" ->
             [at("remove") EXCEPT !.authToken = NoValue, !.userData = NoValue]
        [] t.action = "getUserData" -> put(HubSend(t, [user |-> b.userData]))
        [] t.action \in {"syncProfile", "getFormData"} ->
             IF b.authToken # NoValue THEN at("fetch") ELSE at("get")
        [] t.action = "notifyUser" -> put(HubSend(t, [success |-> TRUE]))
        [] OTHER ->
             put(HubSend(t, [success |-> FALSE, error |-> "Unknown action"]))

\* chrome.storage.local.get has settled: getAuthToken goes on
AfterGet(b, n, outcome) ==
  LET t == [b.tasks[n] EXCEPT !.outcomes = Append(@, outcome)]
      put(c, task) == [c EXCEPT !.tasks[n] = task]
      stored == b.storage.authToken # NoValue
      restored == IF stored
                    THEN startSyncInterval(
                           [b EXCEPT !.authToken = b.storage.authToken,
                                     !.userData = b.storage.userData])
                    ELSE b
  IN  IF outcome = "throws"
        THEN CASE t.action = "getAuthToken" -> put(b, HubCatch(t, "storage"))
               [] t.action = "syncProfile" ->
                    put(b, HubSend(t, [success |-> FALSE, error |-> "storage"]))
               [] OTHER -> put(b, AnswerFormData(t, "storage"))
        ELSE IF t.action = "getAuthToken"
               THEN put(restored, HubSend(t, [token |-> restored.authToken]))
               ELSE put(restored, [t EXCEPT !.pc = "fetch"])

\* fetch and response.json() have settled
AfterFetch(b, n, outcome) ==
  LET t == [b.tasks[n] EXCEPT !.outcomes = Append(@, outcome)]
      put(c, task) == [c EXCEPT !.tasks[n] = task]
  IN  CASE t.action = "login" ->
             IF outcome = "ok"
               THEN put([b EXCEPT !.authToken = "token-2", !.userData = "user-2"],
                        [t EXCEPT !.pc = "set",
                                  !.held = [authToken |-> "token-2",
                                            userData |-> "user-2"]])
             ELSE IF outcome = "error"
               THEN put(b, HubSend(t, [success |-> FALSE, error |-> "network"]))
             ELSE put(b, HubSend(t, [success |-> FALSE, error |-> "Login failed"]))
        [] t.action = "syncProfile" ->
             IF outcome = "ok"
               THEN put([b EXCEPT !.userData = "user-3"],
                        [t EXCEPT !.pc = "set", !.held.userData = "user-3"])
               ELSE put(b, HubSend(t, [success |-> FALSE, error |-> outcome]))
        [] OTHER -> put(b, AnswerFormData(t, outcome))

\* chrome.storage.local.set has settled
AfterSet(b, n, outcome) ==
  LET t == [b.tasks[n] EXCEPT !.outcomes = Append(@, outcome)]
      put(c, task) == [c EXCEPT !.tasks[n] = task]
  IN  IF outcome = "throws"
        THEN put(b, HubSend(t, [success |-> FALSE, error |-> "storage"]))
      ELSE IF t.action = "login"
        THEN put(startSyncInterval([b EXCEPT !.storage = t.held]),
                 HubSend(t, [success |-> TRUE, user |-> b.userData]))
      ELSE put([b EXCEPT !.storage.userData = t.held.userData],
               HubSend(t, [success |-> TRUE]))

\* chrome.storage.local.remove has settled: handleLogout goes on
AfterRemove(b, n, outcome) ==
  LET t == [b.tasks[n] EXCEPT !.outcomes = Append(@, outcome)]
      put(c, task) == [c EXCEPT !.tasks[n] = task]
  IN  IF outcome = "throws"
        THEN put(b, HubCatch(t, "storage"))
        ELSE put([b EXCEPT !.storage = [authToken |-> NoValue, userData |-> NoValue],
                           !.syncInterval = FALSE,
                           !.logouts = @ + 1],
                 HubSend(t, [success |-> TRUE]))

\* the worker just installed, restarted with a stored login, and logged in
HubInits ==
  {[authToken |-> a, userData |-> u, syncInterval |-> s,
    storage |-> [authToken |-> sa, userData |-> su],
    logouts |-> 0, tasks |-> <<>>] :
     <<a, u, s, sa, su>> \in
       {<<NoValue, NoValue, FALSE, NoValue, NoValue>>,
        <<NoValue, NoValue, FALSE, "token-1", "user-1">>,
        <<"token-1", "user-1", TRUE, "token-1", "user-1">>}}

InitHub ==
  /\ doc = <<>>
  /\ inv = <<>>
  /\ running = 0
  /\ call = NoCall
  /\ bg \in HubInits

\* a message arrives at the hub; its handler runs up to its first await
HubMessage(action, from) ==
  /\ Len(bg.tasks) < MaxTasks
  /\ bg' = Begin([bg EXCEPT !.tasks = Append(@, NewTask(action, from, bg))],
                 Len(bg.tasks) + 1)

\* a chrome.storage.local call of handler n settles
StorageSettles(n, outcome) ==
  /\ n \in 1..Len(bg.tasks)
  /\ bg.tasks[n].pc \in {"get", "set", "remove"}
  /\ bg' = CASE bg.tasks[n].pc = "get" -> AfterGet(bg, n, outcome)
             [] bg.tasks[n].pc = "set" -> AfterSet(bg, n, outcome)
             [] OTHER -> AfterRemove(bg, n, outcome)

\* the backend request of handler n settles
FetchSettles(n, outcome) ==
  /\ n \in 1..Len(bg.tasks)
  /\ bg.tasks[n].pc = "fetch"
  /\ bg' = AfterFetch(bg, n, outcome)

FetchOutcomes == {"ok", "fail", "notOk", "error"}

NextHub ==
  \/ \E action \in HubActions :
       HubMessage(action, 0) /\ UNCHANGED <<doc, inv, running, call>>
  \/ \E n \in 1..MaxTasks : \E outcome \in {"ok", "throws"} :
       StorageSettles(n, outcome) /\ UNCHANGED <<doc, inv, running, call>>
  \/ \E n \in 1..MaxTasks : \E outcome \in FetchOutcomes :
       FetchSettles(n, outcome) /\ UNCHANGED <<doc, inv, running, call>>

SpecHub == InitHub /\ [][NextHub]_vars

\* what the hub has answered, per handler
Answered(t) == t.pc = "done"

\* C28: the hub calls sendResponse exactly once for every message, and not
\* before the handler is over: with {success: false, error: 'Unknown
\* action'} for an action it does not know, with {success: false, error}
\* when handling throws (the storage call of getAuthToken or of logout
\* failing), and with the action's own result otherwise.
C28_HubAnswersOnce ==
  \A n \in 1..Len(bg.tasks) :
    LET t == bg.tasks[n]
        threw == /\ t.action \in {"getAuthToken", "logout"}
                 /\ \E k \in 1..Len(t.outcomes) : t.outcomes[k] = "throws"
    IN  /\ ~Answered(t) => t.sent = <<>>
        /\ Answered(t) =>
             /\ Len(t.sent) = 1
             /\ t.action \notin HubActions \ {"bogus"} =>
                  t.sent[1] = [success |-> FALSE, error |-> "Unknown action"]
             /\ threw => t.sent[1] = [success |-> FALSE, error |-> "storage"]
             /\ (~threw /\ t.action \in HubActions \ {"bogus"}) =>
                  CASE t.action = "getAuthToken" -> DOMAIN t.sent[1] = {"token"}
                    [] t.action = "getUserData" -> DOMAIN t.sent[1] = {"user"}
                    [] t.action = "logout" -> t.sent[1] = [success |-> TRUE]
                    [] t.action = "notifyUser" -> t.sent[1] = [success |-> TRUE]
                    [] t.action = "getFormData" ->
                         /\ DOMAIN t.sent[1] = {"success", "data"}
                         /\ t.sent[1].success
                    [] OTHER -> "success" \in DOMAIN t.sent[1]

\* a logout whose storage call failed and an unknown action, each answered once
C28_Witness ==
  /\ Len(bg.tasks) = 2
  /\ bg.tasks[1].action = "logout"
  /\ bg.tasks[1].outcomes = <<"throws">>
  /\ bg.tasks[1].sent = <<[success |-> FALSE, error |-> "storage"]>>
  /\ bg.tasks[2].action = "bogus"
  /\ bg.tasks[2].sent = <<[success |-> FALSE, error |-> "Unknown action"]>>

\* nothing of a login is left in the worker or in the storage
LoggedOut(b) ==
  /\ b.authToken = NoValue
  /\ b.userData = NoValue
  /\ b.storage = [authToken |-> NoValue, userData |-> NoValue]
  /\ ~b.syncInterval

\* a handleLogin that started after the last completed logout has succeeded
LoginSince(b) ==
  \E n \in 1..Len(b.tasks) :
    /\ b.tasks[n].action = "login"
    /\ b.tasks[n].epoch = b.logouts
    /\ b.tasks[n].outcomes # <<>>
    /\ b.tasks[n].outcomes[1] = "ok"

\* C29: once handleLogout has completed, authToken and userData are null,
\* nothing is stored and no sync timer runs, until a handleLogin started
\* after that logout succeeds, whatever was in flight when the logout began.
C29_LogoutSticks ==
  (bg.logouts > 0 /\ ~LoginSince(bg)) => LoggedOut(bg)

\* ---- SpecRelay: the content script asking the background for the profile --
InitRelay ==
  /\ doc \in DocumentsOf({EmailField}, MaxConcFields)
  /\ inv = [i \in {1} |-> IdleInv]
  /\ running = 0
  /\ bg \in HubInits
  /\ call = NoCall

\* the hub handlers started by the message of invocation i
TasksFrom(i) == {n \in 1..Len(bg.tasks) : bg.tasks[n].from = i}

\* chrome.runtime.sendMessage({action: 'getFormData'}) of getProfileData
\* reaches the hub
ContentRequest(i) ==
  /\ inv[i].pc = "await"
  /\ TasksFrom(i) = {}
  /\ HubMessage("getFormData", i)
  /\ UNCHANGED <<doc, inv, running, call>>

\* the response the hub sent reaches the callback of getProfileData
Deliver(i) ==
  \E n \in TasksFrom(i) :
    /\ bg.tasks[n].sent # <<>>
    /\ ProfileCallback(i, bg.tasks[n].sent[1])

\* the popup logs in or out while the content script waits
PopupActions == {"login", "logout"}

OtherMessage(action) ==
  /\ HubMessage(action, 0)
  /\ UNCHANGED <<doc, inv, running, call>>

NextRelay ==
  \/ \E i \in DOMAIN inv : OnMessage(i)
  \/ \E i \in DOMAIN inv : ContentRequest(i)
  \/ \E action \in PopupActions : OtherMessage(action)
  \/ \E n \in 1..Len(bg.tasks) : \E outcome \in {"ok", "throws"} :
       StorageSettles(n, outcome) /\ UNCHANGED <<doc, inv, running, call>>
  \/ \E n \in 1..Len(bg.tasks) : \E outcome \in FetchOutcomes :
       FetchSettles(n, outcome) /\ UNCHANGED <<doc, inv, running, call>>
  \/ \E i \in DOMAIN inv : Deliver(i)
  \/ \E i \in DOMAIN inv : LoopStep(i)
  \/ \E i \in DOMAIN inv : Respond(i)

SpecRelay == InitRelay /\ [][NextRelay]_vars

\* the profile request of a getFormData handler did not give a profile: the
\* fetch was rejected, answered with a non-OK status or with success false,
\* or the token could not be read from the storage
ProfileRequestFailed(t) ==
  /\ t.action = "getFormData"
  /\ t.pc = "done"
  /\ t.outcomes # <<>>
  /\ t.outcomes[Len(t.outcomes)] \in {"fail", "notOk", "error", "throws"}

\* C27: when the backend profile request fails, the background still answers
\* the getFormData message with {success: true, data: null}, and the
\* autoFillForms that asked returns {success: false, reason: "No profile
\* data"} without writing to the document.
C27_FailedProfileRequest ==
  \A i \in DOMAIN inv : \A n \in TasksFrom(i) :
    ProfileRequestFailed(bg.tasks[n]) =>
      /\ bg.tasks[n].sent = <<[success |-> TRUE, data |-> NullData]>>
      /\ inv[i].pc # "await" =>
           /\ inv[i].pc \in {"return", "done"}
           /\ inv[i].result = [success |-> FALSE, reason |-> "No profile data"]
           /\ inv[i].writes = 0
           /\ DocUntouched

\* a request on a job form whose fetch met a network error has been answered
C27_Witness ==
  /\ inv[1].pc = "done"
  /\ inv[1].forms # <<>>
  /\ Len(doc.els) > 0
  /\ \E n \in TasksFrom(1) :
       /\ bg.tasks[n].outcomes[Len(bg.tasks[n].outcomes)] = "error"
       /\ bg.tasks[n].sent = <<[success |-> TRUE, data |-> NullData]>>
  /\ inv[1].result = [success |-> FALSE, reason |-> "No profile data"]

\* every enabled step is eventually taken: the browser runs every queued
\* task and every continuation of a settled promise
FairSpec == Spec /\ WF_vars(Next)
====
